---- MODULE Spec2Model ----
(***************************************************************************)
(* State-machine model of server/index.js: the snapshot cache with its two *)
(* refresh loops, the public read, the Auth Gate and the billing webhook.  *)
(***************************************************************************)
EXTENDS Integers, Sequences, FiniteSets, TLC

VARIABLES
  data,              \* CACHE.data
  dataUpdatedAt,     \* CACHE.dataUpdatedAt
  marketsUpdatedAt,  \* CACHE.marketsUpdatedAt
  now,               \* the wall clock read by new Date()
  baseSeq,           \* number of refreshBaseData calls started so far
  baseTicks,         \* refreshBaseData calls awaiting fetchJson
  marketSeq,         \* number of refreshMarkets calls started so far
  marketTicks,       \* refreshMarkets calls awaiting Promise.all
  fetching,          \* per refreshMarkets call in flight, what its three fetches settled to
  dataTick,          \* history: the base tick whose payload is in CACHE.data
  marketsTick,       \* history: the market tick that set marketsUpdatedAt
  keys,              \* the rows of the key table, in insertion order
  secrets,           \* number of generateKey() calls so far
  mailerUrl,         \* whether process.env.MAILER_URL is set
  hooks,             \* webhook handlers awaiting the mailer fetch
  mails,             \* the POSTs issued to the mailer
  alerts,            \* the rows of the alert table, in insertion order
  last               \* the handler or refresh step that completed last, with its HTTP status

cacheVars == <<data, dataUpdatedAt, marketsUpdatedAt>>
schedVars == <<now, baseSeq, baseTicks, marketSeq, marketTicks, fetching, dataTick, marketsTick>>
keyVars == <<keys, secrets, mailerUrl, hooks, mails, alerts>>
vars == <<data, dataUpdatedAt, marketsUpdatedAt, now, baseSeq, baseTicks,
          marketSeq, marketTicks, fetching, dataTick, marketsTick, keys, secrets, mailerUrl,
          hooks, mails, alerts, last>>

----------------------------------------------------------------------------
\* Bounds of the model.

MaxTime == 1
MaxTicks == 3
MaxKeys == 2
MaxAlerts == 2
MaxJoins == 2
MaxInFlight == 2

----------------------------------------------------------------------------
\* JavaScript values. Every value is a record tagged by its type in t.

Null == [t |-> "null"]
Undefined == [t |-> "undefined"]
Num(n) == [t |-> "num", v |-> n]
Str(s) == [t |-> "str", v |-> s]
Bool(b) == [t |-> "bool", v |-> b]
\* a string whose characters the code looks at: v is the sequence of them
Chars(cs) == [t |-> "chars", v |-> cs]
Unparsable == [t |-> "unparsable"]

\* !v
Falsy(v) ==
  \/ v.t \in {"null", "undefined"}
  \/ v.t = "num" /\ v.v = 0
  \/ v.t = "str" /\ v.v = ""
  \/ v.t = "chars" /\ Len(v.v) = 0
  \/ v.t = "bool" /\ ~v.v

\* a || b
Or(a, b) == IF Falsy(a) THEN b ELSE a

IsObject(v) == v.t = "obj"

\* v.f for a non-nullish v
Field(v, f) == IF IsObject(v) /\ f \in DOMAIN v THEN v[f] ELSE Undefined

\* new Date().toISOString()
Iso(ms) == [t |-> "iso", ms |-> ms]

Throw == [thrown |-> TRUE]
Return(v) == [thrown |-> FALSE, value |-> v]

----------------------------------------------------------------------------
\* Upstream responses.

NetErr == [kind |-> "neterr"]
Http(ok, body) == [kind |-> "http", ok |-> ok, body |-> body]

Doc(v, mk) ==
  [t |-> "obj", score |-> Num(30 * v), updatedAt |-> Str("day"), history |-> Num(v),
   dcaHistory |-> Num(v), drivers |-> Num(v), dca |-> Num(v), markets |-> mk]

BaseMarkets == [t |-> "obj", base |-> Bool(TRUE)]

BaseDocs == {Doc(1, Undefined), Doc(2, BaseMarkets)}

BaseResponses ==
  {NetErr, Http(FALSE, Doc(1, Undefined)), Http(TRUE, Unparsable),
   Http(TRUE, Null), Http(TRUE, Num(7))}
  \cup {Http(TRUE, d) : d \in BaseDocs}

\* fetchJson: rejects on a network error, a non-ok status or an unparsable body
fetchJson(resp) ==
  IF resp.kind = "neterr" THEN Throw
  ELSE IF ~resp.ok THEN Throw
  ELSE IF resp.body = Unparsable THEN Throw
  ELSE Return(resp.body)

----------------------------------------------------------------------------
\* Market providers.

EmptyObj == [t |-> "obj"]

BtcResponses ==
  {NetErr, Http(FALSE, EmptyObj), Http(TRUE, Null), Http(TRUE, EmptyObj),
   Http(TRUE, [t |-> "obj",
               bitcoin |-> [t |-> "obj", usd |-> Num(100), usd_market_cap |-> Num(9)]])}

GoldResponses ==
  {NetErr, Http(FALSE, [t |-> "obj", price |-> Num(50)]),
   Http(TRUE, [t |-> "obj", price |-> Num(50)])}

\* the body of a text response, already split in lines and comma-separated parts
Text(lines) == [t |-> "text", lines |-> lines]
CsvHeader ==
  <<Str("Symbol"), Str("Date"), Str("Time"), Str("Open"), Str("High"), Str("Low"),
    Str("Close"), Str("Volume")>>
CsvRow(close) ==
  <<Str("^SPX"), Str("2024-06-20"), Str("22:00:00"), Str("5400"), Str("5500"),
    Str("5300"), Str(close), Str("1")>>

SpxResponses ==
  {NetErr, Http(TRUE, Text(<<CsvHeader>>)), Http(TRUE, Text(<<CsvHeader, CsvRow("5000")>>)),
   Http(TRUE, Text(<<CsvHeader, CsvRow("N/D")>>)),
   Http(FALSE, Text(<<<<Str("<html>")>>, <<Str("</html>")>>>>)),
   Http(FALSE, Text(<<CsvHeader, CsvRow("5000")>>))}

NaN == [t |-> "nan"]

\* Number(s) for the strings of the model; Number(undefined) is NaN
Number(s) ==
  IF s.t # "str" THEN NaN
  ELSE IF s.v = "5000" THEN Num(5000)
  ELSE IF s.v = "" THEN Num(0)
  ELSE NaN

\* parts[i], zero-based, undefined past the end
At(parts, i) == IF i + 1 <= Len(parts) THEN parts[i + 1] ELSE Undefined

\* fetchBtcMarket: data.bitcoin throws a TypeError when data is null
fetchBtcMarket(resp) ==
  LET r == fetchJson(resp) IN
  IF r.thrown THEN Throw
  ELSE IF r.value.t \in {"null", "undefined"} THEN Throw
  ELSE LET btc == Or(Field(r.value, "bitcoin"), EmptyObj) IN
       Return([t |-> "obj", price |-> Or(Field(btc, "usd"), Null),
               marketCap |-> Or(Field(btc, "usd_market_cap"), Null)])

\* fetchGoldMarket
fetchGoldMarket(resp) ==
  LET r == fetchJson(resp) IN
  IF r.thrown THEN Throw
  ELSE IF r.value.t \in {"null", "undefined"} THEN Throw
  ELSE Return([t |-> "obj", price |-> Or(Field(r.value, "price"), Null),
               marketCap |-> Null, marketCapEstimate |-> Bool(TRUE)])

\* fetchSpx: no check of res.ok; rejects only when fetch itself does
fetchSpx(resp) ==
  IF resp.kind = "neterr" THEN Throw
  ELSE LET lines == resp.body.lines IN
       IF Len(lines) >= 2
       THEN LET close == Number(At(lines[2], 6)) IN
            Return(IF close.t = "num" THEN close ELSE Null)
       ELSE Return(Null)

fetchSp500MarketPropagates(resp) ==
  LET r == fetchSpx(resp) IN
  IF r.thrown THEN Throw
  ELSE Return([t |-> "obj", price |-> r.value, marketCap |-> Null,
               marketCapProxy |-> Str("SPY")])
\* fetchSp500Market: a rejected fetchSpx becomes a null price
fetchSp500Market(resp) ==
  LET r == fetchSpx(resp)
      spxPrice == IF r.thrown THEN Null ELSE r.value
  IN Return([t |-> "obj", price |-> spxPrice, marketCap |-> Null,
             marketCapProxy |-> Str("SPY")])

\* Promise.all over the three fetchers: rejects when one of them rejects
PromiseAll(rb, rg, rx) ==
  LET btc == fetchBtcMarket(rb)
      gold == fetchGoldMarket(rg)
      sp500 == fetchSp500Market(rx)
  IN IF btc.thrown \/ gold.thrown \/ sp500.thrown THEN Throw
     ELSE Return([btc |-> btc.value, gold |-> gold.value, sp500 |-> sp500.value])

\* what the awaited calls of the two refresh functions can settle to
BaseOutcomes == {fetchJson(resp) : resp \in BaseResponses}
MarketResponses == BtcResponses \X GoldResponses \X SpxResponses
MarketOutcome == [rs \in MarketResponses |-> PromiseAll(rs[1], rs[2], rs[3])]
MarketOutcomes == {MarketOutcome[rs] : rs \in MarketResponses}

----------------------------------------------------------------------------
\* The snapshot cache and the refresh loops.

Op(name, status) == [op |-> name, status |-> status]

\* obj.f = v
SetField(obj, f, v) == [k \in DOMAIN obj \cup {f} |-> IF k = f THEN v ELSE obj[k]]

\* the number of times the two interval timers have fired
TimerFirings == (baseSeq - 1) + marketSeq

\* the wall clock advances
Advance ==
  /\ now < MaxTime
  /\ now' = now + 1
  /\ UNCHANGED <<fetching, cacheVars, baseSeq, baseTicks, marketSeq, marketTicks, dataTick, marketsTick,
                 keyVars, last>>

\* setInterval(refreshBaseData, ...): a call starts and awaits fetchJson
BaseTick ==
  /\ TimerFirings < MaxTicks
  /\ baseSeq' = baseSeq + 1
  /\ baseTicks' = baseTicks \cup {baseSeq + 1}
  /\ UNCHANGED <<fetching, cacheVars, now, marketSeq, marketTicks, dataTick, marketsTick, keyVars,
                 last>>

\* refreshBaseData, the two assignments after the await: <<data, dataUpdatedAt>>
refreshBaseDataTry(payload) == <<payload, Iso(now)>>

refreshBaseDataCatchClears == <<Null, dataUpdatedAt>>
\* refreshBaseData, the catch block: keep last cache
refreshBaseDataCatch == <<data, dataUpdatedAt>>

\* the fetchJson of base tick k settled to r, a payload, which is stored
BaseWrite(k, r) ==
  /\ k \in baseTicks
  /\ ~r.thrown
  /\ LET w == refreshBaseDataTry(r.value) IN
       data' = w[1] /\ dataUpdatedAt' = w[2]
  /\ dataTick' = k
  /\ baseTicks' = baseTicks \ {k}
  /\ last' = Op("refreshBaseData:stored", 0)
  /\ UNCHANGED <<fetching, marketsUpdatedAt, now, baseSeq, marketSeq, marketTicks, marketsTick, keyVars>>

\* the fetchJson of base tick k settled to r, an error, which is swallowed
BaseFail(k, r) ==
  /\ k \in baseTicks
  /\ r.thrown
  /\ LET w == refreshBaseDataCatch IN data' = w[1] /\ dataUpdatedAt' = w[2]
  /\ baseTicks' = baseTicks \ {k}
  /\ last' = Op("refreshBaseData:failed", 0)
  /\ UNCHANGED <<fetching, marketsUpdatedAt, now, baseSeq, marketSeq, marketTicks, dataTick, marketsTick,
                 keyVars>>

refreshMarketsNoGuard == FALSE
\* refreshMarkets, first line: if (!CACHE.data) return
refreshMarketsReturns == Falsy(data)

NewMarketTick(id) ==
  [id |-> id, startTick |-> dataTick, startMerge |-> marketsTick,
   startMarkets |-> Field(data, "markets"), startMUA |-> marketsUpdatedAt]

\* setInterval(refreshMarkets, ...) fires while there is no snapshot
MarketSkip ==
  /\ TimerFirings < MaxTicks
  /\ refreshMarketsReturns
  /\ marketSeq' = marketSeq + 1
  /\ last' = Op("refreshMarkets:return", 0)
  /\ UNCHANGED <<fetching, cacheVars, now, baseSeq, baseTicks, marketTicks, dataTick, marketsTick,
                 keyVars>>

\* setInterval(refreshMarkets, ...) fires: the three fetches start
MarketTick ==
  /\ TimerFirings < MaxTicks
  /\ ~refreshMarketsReturns
  /\ marketSeq' = marketSeq + 1
  /\ marketTicks' = marketTicks \cup {NewMarketTick(marketSeq + 1)}
  /\ UNCHANGED <<fetching, cacheVars, now, baseSeq, baseTicks, dataTick, marketsTick, keyVars, last>>

\* the object literal { btc, gold, sp500 }
Markets(q) == [t |-> "obj", btc |-> q.btc, gold |-> q.gold, sp500 |-> q.sp500]

mergeMarketsReplacesDoc(doc, mk) == Doc(0, mk)
\* CACHE.data.markets = { btc, gold, sp500 }
mergeMarkets(doc, mk) == SetField(doc, "markets", mk)

\* refreshMarkets, the two assignments after the await:
\* <<data, marketsUpdatedAt, dataUpdatedAt>>
refreshMarketsTry(mk) == <<mergeMarkets(data, mk), Iso(now), dataUpdatedAt>>

refreshMarketsCatchStamps == <<data, Iso(now), dataUpdatedAt>>
\* refreshMarkets, the catch block: keep last markets
refreshMarketsCatch == <<data, marketsUpdatedAt, dataUpdatedAt>>

\* Promise.all of market tick k settled to r, a rejection: the catch runs
MarketAbandon(k, r) ==
  /\ k \in marketTicks
  /\ r.thrown
  /\ LET w == refreshMarketsCatch IN
       data' = w[1] /\ marketsUpdatedAt' = w[2] /\ dataUpdatedAt' = w[3]
  /\ marketTicks' = marketTicks \ {k}
  /\ last' = Op("refreshMarkets:failed", 0)
  /\ UNCHANGED <<fetching, now, baseSeq, baseTicks, marketSeq, dataTick, marketsTick, keyVars>>

\* Promise.all of market tick k settled to r, the three quotes: the merge is
\* written
MarketMerge(k, r) ==
  /\ k \in marketTicks
  /\ ~r.thrown
  /\ IsObject(data)
  /\ LET w == refreshMarketsTry(Markets(r.value)) IN
       data' = w[1] /\ marketsUpdatedAt' = w[2] /\ dataUpdatedAt' = w[3]
  /\ marketTicks' = marketTicks \ {k}
  /\ marketsTick' = k.id
  /\ last' = [op |-> "refreshMarkets:merged", status |-> 0, startTick |-> k.startTick]
  /\ UNCHANGED <<fetching, now, baseSeq, baseTicks, marketSeq, dataTick, keyVars>>

\* Promise.all settled to the three quotes but CACHE.data is no object: the
\* assignment to CACHE.data.markets throws a TypeError, which the catch swallows
MarketMergeThrows(k, r) ==
  /\ k \in marketTicks
  /\ ~r.thrown
  /\ ~IsObject(data)
  /\ LET w == refreshMarketsCatch IN
       data' = w[1] /\ marketsUpdatedAt' = w[2] /\ dataUpdatedAt' = w[3]
  /\ marketTicks' = marketTicks \ {k}
  /\ last' = Op("refreshMarkets:threw", 0)
  /\ UNCHANGED <<fetching, now, baseSeq, baseTicks, marketSeq, dataTick, marketsTick, keyVars>>

----------------------------------------------------------------------------
\* refreshMarkets with its three fetches settling one by one.

\* a fetch that has not settled yet
Pending == [pending |-> TRUE]

\* the responses of the providers in the fan-out
JoinBtcResponses ==
  {r \in BtcResponses : r = NetErr \/ (r.kind = "http" /\ r.ok /\ IsObject(r.body))}
JoinGoldResponses == {r \in GoldResponses : r.kind = "http" /\ r.ok}
JoinSpxResponses ==
  {r \in SpxResponses : r.kind = "http" /\ r.ok /\ Len(r.body.lines) = 2}

\* refreshMarkets is called with a snapshot cached: the three fetches start
MarketFanOut ==
  /\ marketSeq < MaxJoins
  /\ ~refreshMarketsReturns
  /\ marketSeq' = marketSeq + 1
  /\ fetching' = fetching @@ ((marketSeq + 1) :>
                    [btc |-> Pending, gold |-> Pending, sp500 |-> Pending])
  /\ UNCHANGED <<cacheVars, now, baseSeq, baseTicks, marketTicks, dataTick, marketsTick,
                 keyVars, last>>

\* one of the three promises of call k settles
Settle(k, f, r) ==
  /\ k \in DOMAIN fetching
  /\ fetching[k][f] = Pending
  /\ fetching' = [fetching EXCEPT ![k][f] = r]
  /\ UNCHANGED <<cacheVars, now, baseSeq, baseTicks, marketSeq, marketTicks, dataTick,
                 marketsTick, keyVars, last>>

BtcSettles(k, resp) == Settle(k, "btc", fetchBtcMarket(resp))
GoldSettles(k, resp) == Settle(k, "gold", fetchGoldMarket(resp))
Sp500Settles(k, resp) == Settle(k, "sp500", fetchSp500Market(resp))

Settled(r) == r # Pending
Rejected(r) == Settled(r) /\ r.thrown
Fulfilled(r) == Settled(r) /\ ~r.thrown

\* Promise.all rejects as soon as one of the promises rejects
AllRejects(f) == Rejected(f.btc) \/ Rejected(f.gold) \/ Rejected(f.sp500)

AllResolvesWithoutSp500(f) == Fulfilled(f.btc) /\ Fulfilled(f.gold)
\* Promise.all resolves when the three promises have resolved
AllResolves(f) == Fulfilled(f.btc) /\ Fulfilled(f.gold) /\ Fulfilled(f.sp500)

\* const [btc, gold, sp500] = await Promise.all([...])
Destructured(f) ==
  [btc |-> f.btc.value, gold |-> f.gold.value,
   sp500 |-> IF Fulfilled(f.sp500) THEN f.sp500.value ELSE Undefined]

\* call k leaves the set of calls in flight
Done(k) == [j \in DOMAIN fetching \ {k} |-> fetching[j]]

\* Promise.all of call k rejected: the catch runs
JoinRejects(k) ==
  /\ k \in DOMAIN fetching
  /\ AllRejects(fetching[k])
  /\ LET w == refreshMarketsCatch IN
       data' = w[1] /\ marketsUpdatedAt' = w[2] /\ dataUpdatedAt' = w[3]
  /\ fetching' = Done(k)
  /\ last' = Op("refreshMarkets:failed", 0)
  /\ UNCHANGED <<now, baseSeq, baseTicks, marketSeq, marketTicks, dataTick, marketsTick,
                 keyVars>>

\* Promise.all of call k resolved: the merge is written
JoinResolves(k) ==
  /\ k \in DOMAIN fetching
  /\ ~AllRejects(fetching[k])
  /\ AllResolves(fetching[k])
  /\ IsObject(data)
  /\ LET w == refreshMarketsTry(Markets(Destructured(fetching[k]))) IN
       data' = w[1] /\ marketsUpdatedAt' = w[2] /\ dataUpdatedAt' = w[3]
  /\ fetching' = Done(k)
  /\ marketsTick' = k
  /\ last' = Op("refreshMarkets:merged", 0)
  /\ UNCHANGED <<now, baseSeq, baseTicks, marketSeq, marketTicks, dataTick, keyVars>>

\* Promise.all of call k resolved but CACHE.data is no object: the assignment
\* throws and the catch runs
JoinResolvesThrows(k) ==
  /\ k \in DOMAIN fetching
  /\ ~AllRejects(fetching[k])
  /\ AllResolves(fetching[k])
  /\ ~IsObject(data)
  /\ LET w == refreshMarketsCatch IN
       data' = w[1] /\ marketsUpdatedAt' = w[2] /\ dataUpdatedAt' = w[3]
  /\ fetching' = Done(k)
  /\ last' = Op("refreshMarkets:threw", 0)
  /\ UNCHANGED <<now, baseSeq, baseTicks, marketSeq, marketTicks, dataTick, marketsTick,
                 keyVars>>

----------------------------------------------------------------------------
\* The derived views (utils.js), the alert table (db.js) and the public read.

\* signalFromScore: the band of the score
signalFromScore(score) ==
  IF score.v < 40 THEN Str("fear")
  ELSE IF score.v < 70 THEN Str("neutral")
  ELSE Str("greed")

\* whatChanged: a summary computed from the snapshot alone
whatChanged(payload) ==
  [t |-> "obj", drivers |-> Field(payload, "drivers"), markets |-> Field(payload, "markets")]

\* addAlert: one more row
addAlert(row) == Append(alerts, row)

Response(status, body) == [status |-> status, body |-> body]

NotReadyEmptyDocument == Response(200, EmptyObj)
\* res.status(503).json({ error: 'Index not ready' })
NotReady == Response(503, [error |-> "Index not ready"])

\* { ...obj }: the own properties of an object, none for a number
Spread(v) == IF IsObject(v) THEN v ELSE EmptyObj

\* GET /public/index: the response
PublicIndexResponse ==
  IF Falsy(data) THEN NotReady
  ELSE Response(200,
         SetField(SetField(SetField(Spread(data),
           "signal", signalFromScore(Or(Field(data, "score"), Num(0)))),
           "dataUpdatedAt", dataUpdatedAt),
           "marketsUpdatedAt", marketsUpdatedAt))

\* GET /public/index: the status of the response
PublicIndexStatus == PublicIndexResponse.status

Answer(name, resp) == [op |-> name, status |-> resp.status, body |-> resp.body]

PublicIndex ==
  /\ last' = Answer("GET /public/index", PublicIndexResponse)
  /\ UNCHANGED <<cacheVars, schedVars, keyVars>>

CacheInit ==
  /\ data = Null
  /\ dataUpdatedAt = Null
  /\ marketsUpdatedAt = Null
  /\ now = 0
  /\ baseSeq = 1
  /\ baseTicks = {1}
  /\ marketSeq = 0
  /\ marketTicks = {}
  /\ fetching = <<>>
  /\ dataTick = 0
  /\ marketsTick = 0
  /\ last = Op("listen", 0)

KeyInit ==
  /\ keys = <<>>
  /\ secrets = 0
  /\ hooks = {}
  /\ mails = {}
  /\ alerts = <<>>

Init == CacheInit /\ KeyInit /\ mailerUrl = TRUE

Next ==
  \/ Advance
  \/ BaseTick
  \/ \E k \in baseTicks, r \in BaseOutcomes : BaseWrite(k, r)
  \/ \E k \in baseTicks, r \in BaseOutcomes : BaseFail(k, r)
  \/ MarketSkip
  \/ MarketTick
  \/ \E k \in marketTicks, r \in MarketOutcomes : MarketAbandon(k, r)
  \/ \E k \in marketTicks, r \in MarketOutcomes : MarketMerge(k, r)
  \/ \E k \in marketTicks, r \in MarketOutcomes : MarketMergeThrows(k, r)
  \/ PublicIndex

Spec == Init /\ [][Next]_vars

JoinNext ==
  \/ \E k \in baseTicks, r \in BaseOutcomes : BaseWrite(k, r)
  \/ \E k \in baseTicks, r \in BaseOutcomes : BaseFail(k, r)
  \/ MarketFanOut
  \/ \E k \in DOMAIN fetching, resp \in JoinBtcResponses : BtcSettles(k, resp)
  \/ \E k \in DOMAIN fetching, resp \in JoinGoldResponses : GoldSettles(k, resp)
  \/ \E k \in DOMAIN fetching, resp \in JoinSpxResponses : Sp500Settles(k, resp)
  \/ \E k \in DOMAIN fetching : JoinRejects(k)
  \/ \E k \in DOMAIN fetching : JoinResolves(k)
  \/ \E k \in DOMAIN fetching : JoinResolvesThrows(k)
  \/ PublicIndex

\* the market refresh in detail, after the first base refresh
JoinSpec == Init /\ [][JoinNext]_vars

\* The two interval timers firing for ever. A call takes the lowest number
\* that no call of its task in flight has; at most MaxInFlight calls of a task
\* are in flight together.
FreeNumber(used) ==
  CHOOSE id \in 1..MaxInFlight : id \notin used /\ \A j \in 1..(id - 1) : j \in used

\* setInterval(refreshBaseData, ...) fires
LiveBaseTick ==
  /\ Cardinality(baseTicks) < MaxInFlight
  /\ baseSeq' = FreeNumber(baseTicks)
  /\ baseTicks' = baseTicks \cup {FreeNumber(baseTicks)}
  /\ UNCHANGED <<fetching, cacheVars, now, marketSeq, marketTicks, dataTick, marketsTick, keyVars,
                 last>>

\* setInterval(refreshMarkets, ...) fires while there is no snapshot
LiveMarketSkip ==
  /\ refreshMarketsReturns
  /\ last' = Op("refreshMarkets:return", 0)
  /\ UNCHANGED <<fetching, cacheVars, now, baseSeq, baseTicks, marketSeq, marketTicks, dataTick,
                 marketsTick, keyVars>>

\* the numbers of the refreshMarkets calls in flight
MarketNumbers == {t.id : t \in marketTicks}

\* setInterval(refreshMarkets, ...) fires: the three fetches start
LiveMarketTick ==
  /\ ~refreshMarketsReturns
  /\ Cardinality(MarketNumbers) < MaxInFlight
  /\ marketSeq' = FreeNumber(MarketNumbers)
  /\ marketTicks' = marketTicks \cup {NewMarketTick(FreeNumber(MarketNumbers))}
  /\ UNCHANGED <<fetching, cacheVars, now, baseSeq, baseTicks, dataTick, marketsTick, keyVars, last>>

\* what Promise.all settles to: a rejection, or one of two triples of quotes
LiveMarketOutcomes ==
  {Throw}
  \cup {MarketOutcome[<<Http(TRUE, [t |-> "obj",
                                   bitcoin |-> [t |-> "obj", usd |-> Num(100),
                                                usd_market_cap |-> Num(9)]]),
                        Http(TRUE, [t |-> "obj", price |-> Num(50)]), rx>>] :
          rx \in {NetErr, Http(TRUE, Text(<<CsvHeader, CsvRow("5000")>>))}}

\* what fetchJson settles to: a rejection, a payload that is no document, or
\* an index document
LiveBaseOutcomes == {Throw, Return(Null), Return(Num(7)), Return(Doc(1, Undefined))}

\* the fetchJson of call k of refreshBaseData settles
BaseSettlesLive(k) ==
  \E r \in LiveBaseOutcomes : BaseWrite(k, r) \/ BaseFail(k, r)

\* the Promise.all of call number i of refreshMarkets settles
MarketSettlesLive(i) ==
  \E k \in marketTicks, r \in LiveMarketOutcomes :
    /\ k.id = i
    /\ MarketAbandon(k, r) \/ MarketMerge(k, r) \/ MarketMergeThrows(k, r)

\* a base fetch succeeds with an index document
BaseSucceeds ==
  \E k \in baseTicks, r \in {o \in LiveBaseOutcomes : ~o.thrown /\ IsObject(o.value)} :
    BaseWrite(k, r)

\* the three market fetches of one call all succeed
MarketSucceeds ==
  \E k \in marketTicks, r \in LiveMarketOutcomes \ {Throw} :
    MarketMerge(k, r) \/ MarketMergeThrows(k, r)

LiveNext ==
  \/ LiveBaseTick
  \/ \E k \in baseTicks, r \in LiveBaseOutcomes : BaseWrite(k, r)
  \/ \E k \in baseTicks, r \in LiveBaseOutcomes : BaseFail(k, r)
  \/ LiveMarketSkip
  \/ LiveMarketTick
  \/ \E k \in marketTicks, r \in LiveMarketOutcomes : MarketAbandon(k, r)
  \/ \E k \in marketTicks, r \in LiveMarketOutcomes : MarketMerge(k, r)
  \/ \E k \in marketTicks, r \in LiveMarketOutcomes : MarketMergeThrows(k, r)
  \/ PublicIndex

\* The timers keep firing and every fetch settles; base fetches succeed with a
\* document again and again, and so do the three market fetches of one call.
LiveFairness ==
  /\ WF_vars(LiveBaseTick)
  /\ WF_vars(LiveMarketSkip)
  /\ SF_vars(LiveMarketTick)
  /\ \A k \in 1..MaxInFlight : WF_vars(BaseSettlesLive(k))
  /\ \A i \in 1..MaxInFlight : WF_vars(MarketSettlesLive(i))
  /\ SF_vars(BaseSucceeds)
  /\ SF_vars(MarketSucceeds)

LiveSpec == Init /\ [][LiveNext]_vars /\ LiveFairness

----------------------------------------------------------------------------
\* The key store (db.js) and the helpers of utils.js.

Digits == <<"1", "2", "3", "4", "5", "6", "7", "8", "9">>

\* generateKey: the n-th call returns a secret no earlier call returned
generateKey(n) == Chars(<<"k", Digits[n]>>)

\* hashKey: a deterministic one-way hash of the token
hashKey(token) == [t |-> "hash", of |-> token.v]

\* getKeyByHash: the row with that hash, or undefined
getKeyByHash(hash) ==
  IF \E i \in 1..Len(keys) : keys[i].key_hash = hash
  THEN keys[CHOOSE i \in 1..Len(keys) :
              /\ keys[i].key_hash = hash
              /\ \A j \in 1..(i - 1) : keys[j].key_hash # hash]
  ELSE Undefined

\* insertKey: one more row, with the next id
insertKey(rec) == Append(keys, SetField(rec, "id", Len(keys) + 1))

\* updateKeySubscription: the status of the rows linked to both ids
updateKeySubscription(customer, subscription, status) ==
  [i \in 1..Len(keys) |->
     IF /\ keys[i].stripe_customer_id = customer
        /\ keys[i].stripe_subscription_id = subscription
     THEN [keys[i] EXCEPT !.status = status]
     ELSE keys[i]]

----------------------------------------------------------------------------
\* The Auth Gate.

BearerPrefix == <<"B", "e", "a", "r", "e", "r", " ">>

\* s.startsWith(prefix)
StartsWith(s, prefix) ==
  Len(s) >= Len(prefix) /\ SubSeq(s, 1, Len(prefix)) = prefix

\* s.slice(n)
Slice(s, n) == SubSeq(s, n + 1, Len(s))

\* the Authorization header values of the requests
Headers ==
  {Undefined, Chars(<<>>), Chars(BearerPrefix), Chars(<<"k", "1">>),
   Chars(<<"b", "e", "a", "r", "e", "r", " ", "k", "1">>),
   Chars(BearerPrefix \o <<"z", "z">>)}
  \cup {Chars(BearerPrefix \o generateKey(n).v) : n \in 1..MaxKeys}

requireKeyIgnoresStatus(h) ==
  LET auth == Or(h, Chars(<<>>))
      token == IF StartsWith(auth.v, BearerPrefix) THEN Chars(Slice(auth.v, 7)) ELSE Null
  IN IF Falsy(token) THEN [next |-> FALSE, status |-> 401, error |-> "Missing API key"]
     ELSE LET record == getKeyByHash(hashKey(token)) IN
          IF Falsy(record)
          THEN [next |-> FALSE, status |-> 403, error |-> "Invalid API key"]
          ELSE [next |-> TRUE, apiKey |-> record]
\* requireKey: the response it sends, or next() with req.apiKey
requireKey(h) ==
  LET auth == Or(h, Chars(<<>>))
      token == IF StartsWith(auth.v, BearerPrefix) THEN Chars(Slice(auth.v, 7)) ELSE Null
  IN IF Falsy(token) THEN [next |-> FALSE, status |-> 401, error |-> "Missing API key"]
     ELSE LET record == getKeyByHash(hashKey(token)) IN
          IF Falsy(record) \/ record.status # Str("active")
          THEN [next |-> FALSE, status |-> 403, error |-> "Invalid API key"]
          ELSE [next |-> TRUE, apiKey |-> record]

\* GET /v1/key/verify
KeyVerify(h) ==
  /\ LET out == requireKey(h) IN
       last' = IF out.next
               THEN [op |-> "GET /v1/key/verify", status |-> 200, header |-> h,
                     body |-> [status |-> out.apiKey.status, plan |-> out.apiKey.plan,
                               email |-> out.apiKey.email]]
               ELSE [op |-> "GET /v1/key/verify", status |-> out.status, header |-> h,
                     body |-> [error |-> out.error]]
  /\ UNCHANGED <<cacheVars, schedVars, keyVars>>

----------------------------------------------------------------------------
\* The billing webhook.

CheckoutCompleted == Str("checkout.session.completed")
SubscriptionDeleted == Str("customer.subscription.deleted")

Emails == {Undefined, Str("a@b.com")}
Linkages ==
  {<<Str("cus_1"), Str("sub_1")>>, <<Str("cus_1"), Str("sub_2")>>,
   <<Str("cus_2"), Str("sub_2")>>}

Events ==
  {[type |-> CheckoutCompleted,
    object |-> [t |-> "obj", customer_email |-> e, customer |-> l[1], subscription |-> l[2]]] :
     e \in Emails, l \in Linkages}
  \cup {[type |-> SubscriptionDeleted,
         object |-> [t |-> "obj", customer |-> l[1], id |-> l[2]]] : l \in Linkages}
  \cup {[type |-> Str("invoice.paid"), object |-> EmptyObj]}

\* a delivery: the event of the body and whether the signature header matches
Deliveries == [sigValid : BOOLEAN, event : Events]

constructEventUnverified(d) == Return(d.event)
\* stripe.webhooks.constructEvent: throws unless the signature verifies
constructEvent(d) == IF d.sigValid THEN Return(d.event) ELSE Throw

NewKeyRecordInactive(session, key) ==
  [t |-> "obj", key_hash |-> hashKey(key), plan |-> Str("pro"), status |-> Str("inactive"),
   email |-> Or(Field(session, "customer_email"), Null),
   stripe_customer_id |-> Or(Field(session, "customer"), Null),
   stripe_subscription_id |-> Or(Field(session, "subscription"), Null)]
\* the argument of insertKey
NewKeyRecord(session, key) ==
  [t |-> "obj", key_hash |-> hashKey(key), plan |-> Str("pro"), status |-> Str("active"),
   email |-> Or(Field(session, "customer_email"), Null),
   stripe_customer_id |-> Or(Field(session, "customer"), Null),
   stripe_subscription_id |-> Or(Field(session, "subscription"), Null)]

\* if (session.customer_email && process.env.MAILER_URL)
Notifies(session) == ~Falsy(Field(session, "customer_email")) /\ mailerUrl

\* the signature does not verify: 400
WebhookRejected(d) ==
  /\ constructEvent(d).thrown
  /\ last' = Op("webhook:rejected", 400)
  /\ UNCHANGED <<cacheVars, schedVars, keyVars>>

\* checkout.session.completed with nobody to notify: the key is minted, 200
WebhookCheckout(d) ==
  /\ ~constructEvent(d).thrown
  /\ constructEvent(d).value.type = CheckoutCompleted
  /\ secrets < MaxKeys
  /\ LET session == constructEvent(d).value.object
         key == generateKey(secrets + 1)
     IN /\ keys' = insertKey(NewKeyRecord(session, key))
        /\ ~Notifies(session)
  /\ secrets' = secrets + 1
  /\ last' = Op("webhook:checkout", 200)
  /\ UNCHANGED <<cacheVars, schedVars, mailerUrl, hooks, mails, alerts>>

\* checkout.session.completed: the key is minted and the handler awaits the
\* POST to the mailer
WebhookCheckoutMail(d) ==
  /\ ~constructEvent(d).thrown
  /\ constructEvent(d).value.type = CheckoutCompleted
  /\ secrets < MaxKeys
  /\ LET session == constructEvent(d).value.object
         key == generateKey(secrets + 1)
     IN /\ keys' = insertKey(NewKeyRecord(session, key))
        /\ Notifies(session)
        /\ mails' = mails \cup {[to |-> session.customer_email, key |-> key]}
        /\ hooks' = hooks \cup {key}
  /\ secrets' = secrets + 1
  /\ last' = Op("webhook:checkout:await", 0)
  /\ UNCHANGED <<cacheVars, schedVars, mailerUrl, alerts>>

\* the POST to the mailer resolved, whatever its status: 200
WebhookMailResolved(h) ==
  /\ h \in hooks
  /\ hooks' = hooks \ {h}
  /\ last' = Op("webhook:checkout:mailed", 200)
  /\ UNCHANGED <<cacheVars, schedVars, keys, secrets, mailerUrl, mails, alerts>>

\* the POST to the mailer rejected: the handler's promise rejects and
\* res.json is never reached; the framework answers 500 or not at all (0)
WebhookMailRejected(h, status) ==
  /\ h \in hooks
  /\ hooks' = hooks \ {h}
  /\ last' = Op("webhook:checkout:mailfailed", status)
  /\ UNCHANGED <<cacheVars, schedVars, keys, secrets, mailerUrl, mails, alerts>>

subscriptionDeletedByCustomer(subscription) ==
  [i \in 1..Len(keys) |->
     IF keys[i].stripe_customer_id = subscription.customer
     THEN [keys[i] EXCEPT !.status = Str("inactive")]
     ELSE keys[i]]
subscriptionDeletedRemoves(subscription) ==
  SelectSeq(keys, LAMBDA r : ~(/\ r.stripe_customer_id = subscription.customer
                               /\ r.stripe_subscription_id = subscription.id))
\* the key table after the call of updateKeySubscription for the event's object
subscriptionDeleted(subscription) ==
  updateKeySubscription(subscription.customer, subscription.id, Str("inactive"))

\* customer.subscription.deleted: 200
WebhookDeleted(d) ==
  /\ ~constructEvent(d).thrown
  /\ constructEvent(d).value.type = SubscriptionDeleted
  /\ LET subscription == constructEvent(d).value.object IN
       keys' = subscriptionDeleted(subscription)
  /\ last' = Op("webhook:deleted", 200)
  /\ UNCHANGED <<cacheVars, schedVars, secrets, mailerUrl, hooks, mails, alerts>>

\* any other event type: 200
WebhookOther(d) ==
  /\ ~constructEvent(d).thrown
  /\ constructEvent(d).value.type \notin {CheckoutCompleted, SubscriptionDeleted}
  /\ last' = Op("webhook:other", 200)
  /\ UNCHANGED <<cacheVars, schedVars, keyVars>>

\* POST /v1/webhook with delivery d, up to its first await or its end
Webhook(d) ==
  \/ WebhookRejected(d)
  \/ WebhookCheckout(d)
  \/ WebhookCheckoutMail(d)
  \/ WebhookDeleted(d)
  \/ WebhookOther(d)

KeySpecInit == CacheInit /\ KeyInit /\ mailerUrl \in BOOLEAN

KeyNext ==
  \/ \E h \in Headers : KeyVerify(h)
  \/ \E d \in Deliveries : WebhookRejected(d)
  \/ \E d \in Deliveries : WebhookCheckout(d)
  \/ \E d \in Deliveries : WebhookCheckoutMail(d)
  \/ \E h \in hooks : WebhookMailResolved(h)
  \/ \E h \in hooks, status \in {0, 500} : WebhookMailRejected(h, status)
  \/ \E d \in Deliveries : WebhookDeleted(d)
  \/ \E d \in Deliveries : WebhookOther(d)

\* the key store, the Auth Gate and the webhook, which share no state with the
\* refresh loops
KeySpec == KeySpecInit /\ [][KeyNext]_vars

----------------------------------------------------------------------------
\* The read endpoints and the self-service endpoints.

\* GET /v1/index, after requireKey
V1IndexResponse ==
  LET payload == data IN
  IF Falsy(payload) THEN NotReady
  ELSE Response(200,
         [version |-> Str("v1"), updatedAt |-> Field(payload, "updatedAt"),
          score |-> Field(payload, "score"),
          signal |-> signalFromScore(Or(Field(payload, "score"), Num(0))),
          dca |-> Field(payload, "dca"), whatChanged |-> whatChanged(payload),
          drivers |-> Field(payload, "drivers"), markets |-> Field(payload, "markets")])

\* GET /v1/history, after requireKey
V1HistoryResponse ==
  LET payload == data IN
  IF Falsy(payload) THEN NotReady
  ELSE Response(200,
         [version |-> Str("v1"), history |-> Field(payload, "history"),
          dcaHistory |-> Field(payload, "dcaHistory")])

\* GET /v1/markets, after requireKey
V1MarketsResponse ==
  LET payload == data IN
  IF Falsy(payload) THEN NotReady
  ELSE Response(200, [version |-> Str("v1"), markets |-> Field(payload, "markets")])

\* GET /v1/drivers, after requireKey
V1DriversResponse ==
  LET payload == data IN
  IF Falsy(payload) THEN NotReady
  ELSE Response(200,
         [version |-> Str("v1"), drivers |-> Field(payload, "drivers"),
          whatChanged |-> whatChanged(payload)])

GuardedAfterHandler(h, handler) ==
  LET out == requireKey(h) IN
  IF handler.status # 200 \/ out.next THEN handler
  ELSE Response(out.status, [error |-> out.error])
\* app.get(route, requireKey, handler): the response of requireKey, or that
\* of the handler when requireKey calls next()
Guarded(h, handler) ==
  LET out == requireKey(h) IN
  IF out.next THEN handler ELSE Response(out.status, [error |-> out.error])

V1Index(h) ==
  /\ last' = Answer("GET /v1/index", Guarded(h, V1IndexResponse))
  /\ UNCHANGED <<cacheVars, schedVars, keyVars>>

V1History(h) ==
  /\ last' = Answer("GET /v1/history", Guarded(h, V1HistoryResponse))
  /\ UNCHANGED <<cacheVars, schedVars, keyVars>>

V1Markets(h) ==
  /\ last' = Answer("GET /v1/markets", Guarded(h, V1MarketsResponse))
  /\ UNCHANGED <<cacheVars, schedVars, keyVars>>

V1Drivers(h) ==
  /\ last' = Answer("GET /v1/drivers", Guarded(h, V1DriversResponse))
  /\ UNCHANGED <<cacheVars, schedVars, keyVars>>

\* the bodies of POST /v1/alerts/subscribe; undefined when the request has none
AlertBodies ==
  {Undefined, EmptyObj, [t |-> "obj", email |-> Str("")],
   [t |-> "obj", email |-> Str("a@b.com")],
   [t |-> "obj", telegramChatId |-> Str("42")]}

AlertsRejectsNothing(body) == FALSE
\* if (!email && !telegramChatId)
AlertsRejects(body) ==
  LET b == Or(body, EmptyObj) IN
  Falsy(Field(b, "email")) /\ Falsy(Field(b, "telegramChatId"))

\* the argument of addAlert
NewAlert(apiKey, body) ==
  LET b == Or(body, EmptyObj) IN
  [api_key_id |-> apiKey.id, email |-> Field(b, "email"),
   telegram_chat_id |-> Or(Field(b, "telegramChatId"), Null)]

\* POST /v1/alerts/subscribe
AlertsSubscribe(h, body) ==
  LET out == requireKey(h) IN
  IF ~out.next
  THEN /\ last' = Answer("POST /v1/alerts/subscribe", Response(out.status, [error |-> out.error]))
       /\ UNCHANGED <<cacheVars, schedVars, keyVars>>
  ELSE IF AlertsRejects(body)
  THEN /\ last' = Answer("POST /v1/alerts/subscribe",
                         Response(400, [error |-> "Provide email or telegramChatId"]))
       /\ UNCHANGED <<cacheVars, schedVars, keyVars>>
  ELSE /\ Len(alerts) < MaxAlerts
       /\ alerts' = addAlert(NewAlert(out.apiKey, body))
       /\ last' = Answer("POST /v1/alerts/subscribe", Response(200, [ok |-> TRUE]))
       /\ UNCHANGED <<cacheVars, schedVars, keys, secrets, mailerUrl, hooks, mails>>

\* GET /health
Health ==
  /\ last' = Answer("GET /health", Response(200, [ok |-> TRUE]))
  /\ UNCHANGED <<cacheVars, schedVars, keyVars>>

\* POST /v1/checkout: priceId is process.env.STRIPE_PRICE_ID, session what
\* stripe.checkout.sessions.create settles to; a rejection leaves the request
\* to the framework (500, or no answer: 0)
Checkout(priceId, session, status) ==
  /\ last' = Answer("POST /v1/checkout",
                    IF Falsy(priceId) THEN Response(500, [error |-> "Missing Stripe price id"])
                    ELSE IF session.thrown THEN Response(status, [error |-> "unhandled"])
                    ELSE Response(200, [url |-> session.value]))
  /\ UNCHANGED <<cacheVars, schedVars, keyVars>>

\* the deliveries of the HTTP surface: one customer with one subscription and
\* no email, every event type, with and without a valid signature
ApiDeliveries ==
  {d \in Deliveries :
     \/ d.event.type \notin {CheckoutCompleted, SubscriptionDeleted}
     \/ /\ d.event.type = CheckoutCompleted
        /\ d.event.object.customer_email = Undefined
        /\ d.event.object.customer = Str("cus_1")
        /\ d.event.object.subscription = Str("sub_1")
     \/ /\ d.event.type = SubscriptionDeleted
        /\ d.event.object.customer = Str("cus_1")
        /\ d.event.object.id = Str("sub_1")}

\* the bodies of the alert requests of the HTTP surface
ApiAlertBodies == {Undefined, EmptyObj, [t |-> "obj", email |-> Str("a@b.com")]}

\* a deployment without MAILER_URL
ApiInit == CacheInit /\ KeyInit /\ mailerUrl = FALSE

ApiNext ==
  \/ \E k \in baseTicks, r \in BaseOutcomes : BaseWrite(k, r)
  \/ \E k \in baseTicks, r \in BaseOutcomes : BaseFail(k, r)
  \/ \E d \in ApiDeliveries : WebhookRejected(d)
  \/ \E d \in ApiDeliveries : WebhookCheckout(d)
  \/ \E d \in ApiDeliveries : WebhookDeleted(d)
  \/ \E d \in ApiDeliveries : WebhookOther(d)
  \/ PublicIndex
  \/ \E h \in Headers : V1Index(h)
  \/ \E h \in Headers : V1History(h)
  \/ \E h \in Headers : V1Markets(h)
  \/ \E h \in Headers : V1Drivers(h)
  \/ \E h \in Headers : KeyVerify(h)
  \/ \E h \in Headers, body \in ApiAlertBodies : AlertsSubscribe(h, body)
  \/ Health
  \/ \E priceId \in {Undefined, Str("price_1")}, session \in {Throw, Return(Str("url"))},
        status \in {0, 500} : Checkout(priceId, session, status)

\* the HTTP surface over the key store and the cache filled by the base refresh
ApiSpec == ApiInit /\ [][ApiNext]_vars

AlertNext ==
  \/ \E d \in ApiDeliveries : WebhookCheckout(d)
  \/ \E d \in ApiDeliveries : WebhookDeleted(d)
  \/ \E h \in Headers : KeyVerify(h)
  \/ \E h \in Headers, body \in AlertBodies : AlertsSubscribe(h, body)

\* the alert table, with the keys that the requests authenticate with
AlertSpec == ApiInit /\ [][AlertNext]_vars

----------------------------------------------------------------------------
\* Properties of the snapshot cache, checked under Spec.

\* C1: once the cache has been ready (CACHE.data set, GET /public/index
\* answers 200), no later state has reads answering 503 "Index not ready",
\* whatever the base refreshes settle to.
C1_OnceReadyAlwaysReady ==
  [][PublicIndexStatus = 200 => PublicIndexStatus' = 200]_vars

\* the fetch of a base tick fails: network error, non-success status or a
\* body that is no JSON
BaseFetchFails(resp) ==
  resp.kind = "neterr" \/ ~resp.ok \/ resp.body = Unparsable

\* the fetchJson of base tick k settles to r
BaseSettles(k, r) == BaseWrite(k, r) \/ BaseFail(k, r)

\* C2: a base refresh tick whose fetch fails leaves the cached document and
\* dataUpdatedAt exactly as they were; the failure is swallowed (the tick
\* ends) and the schedule of the ticks is not touched.
C2_FailedBaseTickKeepsCache ==
  [][\A k \in baseTicks \ baseTicks', resp \in BaseResponses :
       (BaseFetchFails(resp) /\ BaseSettles(k, fetchJson(resp)))
         => /\ UNCHANGED <<data, dataUpdatedAt, marketsUpdatedAt>>
            /\ baseTicks' = baseTicks \ {k}
            /\ UNCHANGED <<baseSeq, marketSeq, marketTicks>>]_vars

\* a failed base tick after the clock moved on from the last stored snapshot
C2_Witness ==
  /\ last.op = "refreshBaseData:failed"
  /\ ~Falsy(data)
  /\ dataUpdatedAt # Iso(now)

\* market tick k ends without a merge
MarketFails(k, r) == MarketAbandon(k, r) \/ MarketMergeThrows(k, r)

\* C3 as stated: when a market tick fails, markets and marketsUpdatedAt are
\* what they were when that tick started, however it interleaved with other
\* market ticks (no base refresh stored a document in between).
C3_FailedTickSeesStartValues ==
  [][\A k \in marketTicks \ marketTicks', r \in MarketOutcomes :
       (MarketFails(k, r) /\ dataTick = k.startTick)
         => /\ Field(data', "markets") = k.startMarkets
            /\ marketsUpdatedAt' = k.startMUA]_vars

\* C3, amended: the step in which a market tick fails writes nothing, and
\* markets and marketsUpdatedAt are then what they were when the tick started
\* unless another market tick merged, or a base refresh stored a document,
\* while it was in flight.
C3_FailedMarketTickWritesNothing ==
  [][\A k \in marketTicks \ marketTicks', r \in MarketOutcomes :
       MarketFails(k, r)
         => /\ UNCHANGED <<data, dataUpdatedAt, marketsUpdatedAt>>
            /\ (dataTick = k.startTick /\ marketsTick = k.startMerge)
                 => /\ Field(data', "markets") = k.startMarkets
                    /\ marketsUpdatedAt' = k.startMUA]_vars

\* a market tick failed after an earlier merge, the clock having moved on
C3_Witness ==
  /\ last.op \in {"refreshMarkets:failed", "refreshMarkets:threw"}
  /\ marketsUpdatedAt \notin {Null, Iso(now)}
  /\ IsObject(Field(data, "markets"))

\* the fetch of a provider fails hard: network error or non-success status
HardFailure(resp) == resp.kind = "neterr" \/ ~resp.ok

\* Promise.all of market tick k settles to r
MarketSettles(k, r) ==
  MarketAbandon(k, r) \/ MarketMerge(k, r) \/ MarketMergeThrows(k, r)

\* what Promise.all settles to over the responses that satisfy P
OutcomesWhere(P(_)) == {MarketOutcome[rs] : rs \in {x \in MarketResponses : P(x)}}

AnyHardFailure(rs) == HardFailure(rs[1]) \/ HardFailure(rs[2]) \/ HardFailure(rs[3])
CryptoOrMetalHardFailure(rs) == HardFailure(rs[1]) \/ HardFailure(rs[2])
EquityHardFailureOnly(rs) ==
  HardFailure(rs[3]) /\ ~fetchBtcMarket(rs[1]).thrown /\ ~fetchGoldMarket(rs[2]).thrown
EquityNetErrOnly(rs) == EquityHardFailureOnly(rs) /\ rs[3] = NetErr

AnyHardFailureOutcomes == OutcomesWhere(AnyHardFailure)
CryptoOrMetalFailureOutcomes == OutcomesWhere(CryptoOrMetalHardFailure)
EquityFailureOutcomes == OutcomesWhere(EquityHardFailureOnly)
EquityNetErrOutcomes == OutcomesWhere(EquityNetErrOnly)

C5_TickWithoutSnapshotDoesNothing ==
  [][(marketSeq' # marketSeq /\ Falsy(data))
       => /\ UNCHANGED <<data, dataUpdatedAt, marketsUpdatedAt, marketTicks, marketsTick>>
          /\ PublicIndexStatus' = 503]_vars

\* every market tick so far fired before the only base tick stored its
\* document, and no merge followed
C5_Witness ==
  /\ marketSeq >= 1
  /\ baseSeq = 1
  /\ last.op = "refreshBaseData:stored"
  /\ ~Falsy(data)
  /\ marketTicks = {}
  /\ marketsUpdatedAt = Null

\* the fields of the document that the base refresh owns
BaseFields == {"score", "updatedAt", "history", "dcaHistory", "drivers", "dca"}

\* C6: a successful market merge changes only the markets field of the
\* document cached at that moment and marketsUpdatedAt; the other fields and
\* dataUpdatedAt are unchanged, also when a base refresh replaced the document
\* after the market tick started.
C6_MergeTouchesOnlyMarkets ==
  [][(\E k \in marketTicks \ marketTicks', q \in MarketOutcomes : MarketMerge(k, q))
       => /\ \A f \in BaseFields : Field(data', f) = Field(data, f)
          /\ DOMAIN data' = DOMAIN data \cup {"markets"}
          /\ dataUpdatedAt' = dataUpdatedAt
          /\ dataTick' = dataTick
          /\ marketsUpdatedAt' = Iso(now)
          /\ \E r \in MarketOutcomes : ~r.thrown /\ data'.markets = Markets(r.value)]_vars

\* a merge landed on a document stored after the market tick started
C6_Witness ==
  /\ last.op = "refreshMarkets:merged"
  /\ last.startTick # dataTick
  /\ Field(data, "score") = Num(60)

\* the values a market merge writes to the markets field
MergedMarkets == {Markets(r.value) : r \in {o \in MarketOutcomes : ~o.thrown}}

\* C17: in every state where marketsUpdatedAt is non-null, the markets field
\* of the document served by GET /public/index is a value written by a market
\* merge, never absent or the one the base document came with; in particular
\* after a later base refresh stored a new document.
C17_MarketsMatchTimestamp ==
  (marketsUpdatedAt # Null /\ IsObject(data) /\ PublicIndexStatus = 200)
    => Field(PublicIndexResponse.body, "markets") \in MergedMarkets

\* C19: the writes of each task are applied in the order in which the ticks
\* started: the cached document is never replaced by the payload of a base
\* tick that started before the tick whose payload is cached, and markets is
\* never replaced by the quotes of a market tick that started before the tick
\* whose quotes are cached.
C19_WritesInTickStartOrder ==
  [][/\ (IsObject(data) /\ IsObject(data')) => dataTick' >= dataTick
     /\ marketsTick' >= marketsTick]_vars

----------------------------------------------------------------------------
\* Progress of the two refresh tasks, checked under LiveSpec.

\* reads eventually return 200
BaseProgress == <>(PublicIndexStatus = 200)

\* once the cache is ready, marketsUpdatedAt eventually becomes non-null
MarketProgress == (PublicIndexStatus = 200) ~> (marketsUpdatedAt # Null)

\* a timer can fire whatever the calls of the other task did, and the step in
\* which a call of one task fails leaves the calls of the other task alone
TasksIsolated ==
  /\ [](Cardinality(baseTicks) < MaxInFlight => ENABLED LiveBaseTick)
  /\ [](Cardinality(MarketNumbers) < MaxInFlight
          => ENABLED (LiveMarketSkip \/ LiveMarketTick))
  /\ [][/\ (\E k \in baseTicks, r \in LiveBaseOutcomes : BaseFail(k, r))
             => UNCHANGED <<marketSeq, marketTicks, marketsUpdatedAt>>
        /\ (\E k \in marketTicks, r \in LiveMarketOutcomes :
              MarketAbandon(k, r) \/ MarketMergeThrows(k, r))
             => UNCHANGED <<baseSeq, baseTicks, data, dataUpdatedAt>>]_vars

\* C20: with the timers firing for ever and every fetch settling, if base
\* fetches succeed with a document again and again, reads eventually return
\* 200; once the cache is ready, if the three market fetches of one call
\* succeed again and again, marketsUpdatedAt eventually becomes non-null; and
\* the failures of one task neither stop nor delay the ticks of the other.
C20_ProgressAndIsolation == BaseProgress /\ MarketProgress /\ TasksIsolated

----------------------------------------------------------------------------
\* Properties of the join of the three market fetches, checked under JoinSpec.

\* the three quotes that call k fetched, once all of them are there
QuotesOf(k) ==
  [t |-> "obj", btc |-> fetching[k].btc.value, gold |-> fetching[k].gold.value,
   sp500 |-> fetching[k].sp500.value]

\* C16: the three fetches of one call of refreshMarkets are joined before any
\* write. While a call has a fetch pending it writes nothing; markets and
\* marketsUpdatedAt change only together, in the one step in which a call
\* whose three fetches have all resolved writes the three quotes it fetched
\* itself; so the markets field is never a mix of the quotes of two calls and
\* never newer than marketsUpdatedAt. What GET /public/index serves is that
\* pair.
C16_JoinedBeforeWrite ==
  /\ [](PublicIndexStatus = 200 =>
         /\ Field(PublicIndexResponse.body, "markets") = Field(data, "markets")
         /\ PublicIndexResponse.body.marketsUpdatedAt = marketsUpdatedAt)
  /\ [][(/\ dataTick' = dataTick
          /\ \/ Field(data', "markets") # Field(data, "markets")
             \/ marketsUpdatedAt' # marketsUpdatedAt
             \/ marketsTick' # marketsTick)
          => \E k \in DOMAIN fetching :
               /\ \A f \in {"btc", "gold", "sp500"} : Fulfilled(fetching[k][f])
               /\ data'.markets = QuotesOf(k)
               /\ marketsUpdatedAt' = Iso(now)
               /\ marketsTick' = k
               /\ k \notin DOMAIN fetching'
               /\ \A f \in BaseFields : Field(data', f) = Field(data, f)]_vars

\* the later of two overlapping calls merged its own quotes while the earlier
\* one, whose crypto and equity quotes differ from them, still waits for its
\* metal quote
C16_Witness ==
  /\ marketsTick = 2
  /\ 1 \in DOMAIN fetching
  /\ Fulfilled(fetching[1].btc) /\ Fulfilled(fetching[1].sp500)
  /\ fetching[1].gold = Pending
  /\ IsObject(Field(data, "markets"))
  /\ data.markets.btc # fetching[1].btc.value
  /\ data.markets.sp500 # fetching[1].sp500.value
  /\ last.op = "GET /public/index"
  /\ last.status = 200

----------------------------------------------------------------------------
\* Properties of the Auth Gate and of the webhook, checked under KeySpec.

\* an Authorization header that carries a bearer token, and that token
HasToken(h) ==
  h.t = "chars" /\ Len(h.v) > Len(BearerPrefix) /\ SubSeq(h.v, 1, Len(BearerPrefix)) = BearerPrefix
TokenOf(h) == Chars(SubSeq(h.v, Len(BearerPrefix) + 1, Len(h.v)))

\* the rows of the key store whose hash is that of the header's token
Matching(h) == {i \in 1..Len(keys) : keys[i].key_hash = hashKey(TokenOf(h))}

\* the outcome the four cases give for header h
AuthCase(h, out) ==
  /\ ~HasToken(h) => ~out.next /\ out.status = 401
  /\ (HasToken(h) /\ Matching(h) = {}) => ~out.next /\ out.status = 403
  /\ HasToken(h) =>
       \A i \in Matching(h) :
         /\ keys[i].status = Str("inactive") => ~out.next /\ out.status = 403
         /\ keys[i].status = Str("active") => out.next /\ out.apiKey = keys[i]
  /\ HasToken(h) => Cardinality(Matching(h)) <= 1
  /\ \A i \in 1..Len(keys) : keys[i].status \in {Str("active"), Str("inactive")}

\* C7: the Auth Gate answers 401 when no token is present, 403 when the token's
\* hash is not in the key store, 403 when the record found is inactive, and
\* lets the request proceed with the record attached when it is active; the
\* four cases cover every Authorization header and key store, and exclude
\* each other.
C7_AuthGateCases ==
  /\ \A h \in Headers : AuthCase(h, requireKey(h))
  /\ last.op = "GET /v1/key/verify" =>
       /\ last.status \in {200, 401, 403}
       /\ AuthCase(last.header,
                   IF last.status = 200
                   THEN [next |-> TRUE, apiKey |-> getKeyByHash(hashKey(TokenOf(last.header)))]
                   ELSE [next |-> FALSE, status |-> last.status])
       /\ last.status = 200 =>
            LET rec == getKeyByHash(hashKey(TokenOf(last.header))) IN
            last.body = [status |-> rec.status, plan |-> rec.plan, email |-> rec.email]

\* a request whose token belongs to a deactivated key was refused, while
\* another key is active
C7_Witness ==
  /\ last.op = "GET /v1/key/verify"
  /\ last.status = 403
  /\ HasToken(last.header)
  /\ Matching(last.header) # {}
  /\ \E i \in 1..Len(keys) : keys[i].status = Str("active")

\* C8: a delivery whose signature fails verification is answered 400 and has
\* no side effect, whatever event type its body claims: no key record is
\* inserted or changed, no secret is generated, nothing is sent to the mailer.
C8_UnverifiedDeliveryHasNoEffect ==
  [][\A d \in Deliveries :
       (~d.sigValid /\ Webhook(d))
         => /\ last'.op = "webhook:rejected"
            /\ last'.status = 400
            /\ UNCHANGED <<keys, secrets, hooks, mails>>]_vars

\* a delivery was rejected while the key store held a record
C8_Witness ==
  /\ last.op = "webhook:rejected"
  /\ last.status = 400
  /\ Len(keys) >= 1

\* the ways the handler of a verified delivery ends
VerifiedEnded ==
  {"webhook:checkout", "webhook:checkout:mailed", "webhook:checkout:mailfailed",
   "webhook:deleted", "webhook:other"}

\* C9: a delivery that passes verification is answered 200 {received: true},
\* whatever its event type and whether the notification succeeds or fails:
\* when the handler of a verified delivery has ended, its answer is 200.
C9_VerifiedDeliveryAnswered200 ==
  last.op \in VerifiedEnded => last.status = 200

\* C10: each processed delivery of a verified checkout completed event adds
\* exactly one key record: active, plan "pro", email, customer and
\* subscription taken from the event (null when absent), the hash that of a
\* freshly generated secret, which no earlier record has; the records that
\* were there are unchanged. So there are as many records as processed
\* deliveries, also of one and the same event.
C10_CheckoutMintsOneKey ==
  /\ [](Len(keys) = secrets)
  /\ [][\A d \in Deliveries :
          (/\ d.sigValid
           /\ d.event.type = CheckoutCompleted
           /\ Webhook(d))
            => LET o == d.event.object
                   new == keys'[Len(keys')]
               IN /\ Len(keys') = Len(keys) + 1
                  /\ SubSeq(keys', 1, Len(keys)) = keys
                  /\ new.status = Str("active")
                  /\ new.plan = Str("pro")
                  /\ new.email = (IF o.customer_email = Undefined THEN Null
                                  ELSE o.customer_email)
                  /\ new.stripe_customer_id = o.customer
                  /\ new.stripe_subscription_id = o.subscription
                  /\ new.key_hash = hashKey(generateKey(secrets + 1))
                  /\ \A i \in 1..Len(keys) : keys[i].key_hash # new.key_hash]_vars

\* the same event was delivered twice and minted two records
C10_Witness ==
  /\ Len(keys) = 2
  /\ keys[1].email = keys[2].email
  /\ keys[1].stripe_customer_id = keys[2].stripe_customer_id
  /\ keys[1].stripe_subscription_id = keys[2].stripe_subscription_id
  /\ keys[1].key_hash # keys[2].key_hash
  /\ keys[1].status = Str("active") /\ keys[2].status = Str("active")

\* the rows linked to both the customer and the subscription
Linked(c, s) ==
  {i \in 1..Len(keys) :
     keys[i].stripe_customer_id = c /\ keys[i].stripe_subscription_id = s}

\* C11: a verified subscription deleted event for customer c and subscription
\* s sets to inactive exactly the key records linked to both c and s; every
\* other record, also one of the same customer with another subscription, is
\* unchanged, and so are the other fields of the matching ones. With no
\* matching record no record changes. The handler answers 200 in both cases.
C11_DeletedDeactivatesExactlyLinked ==
  [][\A d \in Deliveries :
       (/\ d.sigValid
        /\ d.event.type = SubscriptionDeleted
        /\ Webhook(d))
         => LET c == d.event.object.customer
                s == d.event.object.id
            IN /\ Len(keys') = Len(keys)
               /\ \A i \in Linked(c, s) :
                    keys'[i] = [keys[i] EXCEPT !.status = Str("inactive")]
               /\ \A i \in (1..Len(keys)) \ Linked(c, s) : keys'[i] = keys[i]
               /\ Linked(c, s) = {} => keys' = keys
               /\ last'.op = "webhook:deleted"
               /\ last'.status = 200
               /\ UNCHANGED <<secrets, hooks, mails>>]_vars

\* a deletion deactivated one subscription of a customer and left the record
\* of the customer's other subscription active
C11_Witness ==
  /\ last.op = "webhook:deleted"
  /\ \E i, j \in 1..Len(keys) :
       /\ keys[i].stripe_customer_id = keys[j].stripe_customer_id
       /\ keys[i].stripe_subscription_id # keys[j].stripe_subscription_id
       /\ keys[i].status = Str("inactive")
       /\ keys[j].status = Str("active")


\* C18: revocation is permanent. A key record becomes inactive only when a
\* verified subscription deleted event for its customer and subscription is
\* processed, so with an inactive record linked to (c, s) that event has been
\* processed, and from then on no record linked to (c, s) is active, also when
\* the checkout completed event for (c, s) is delivered after the deletion.
C18_RevocationPermanent ==
  \A l \in Linkages :
    (\E i \in Linked(l[1], l[2]) : keys[i].status = Str("inactive"))
      => \A j \in Linked(l[1], l[2]) : keys[j].status # Str("active")

----------------------------------------------------------------------------
\* Properties of the HTTP surface, checked under ApiSpec and AlertSpec.

\* a request to an endpoint other than the webhook is answered in this step
EndpointStep ==
  \/ PublicIndex
  \/ Health
  \/ \E h \in Headers :
       V1Index(h) \/ V1History(h) \/ V1Markets(h) \/ V1Drivers(h) \/ KeyVerify(h)
  \/ \E h \in Headers, body \in ApiAlertBodies : AlertsSubscribe(h, body)
  \/ \E priceId \in {Undefined, Str("price_1")}, session \in {Throw, Return(Str("url"))},
        status \in {0, 500} : Checkout(priceId, session, status)

\* a verified delivery of an event of that type is handled in this step
VerifiedStep(type) ==
  \E d \in ApiDeliveries : d.sigValid /\ d.event.type = type /\ Webhook(d)

\* C12: the lifecycle of the key records over every sequence of requests and
\* deliveries. No record is removed; a record appears only in the step of a
\* verified checkout completed event, one at a time and active; a record that
\* is there changes only in its status, only from active to inactive, and
\* only in the step of a verified subscription deleted event. Deliveries that
\* fail verification, events of other types and every endpoint other than the
\* webhook (the Auth Gate included) leave the key store as it is.
C12_KeyLifecycle ==
  [][/\ Len(keys') >= Len(keys)
     /\ \A i \in 1..Len(keys) :
          \/ keys'[i] = keys[i]
          \/ /\ keys[i].status = Str("active")
             /\ keys'[i] = [keys[i] EXCEPT !.status = Str("inactive")]
     /\ Len(keys') > Len(keys) =>
          /\ VerifiedStep(CheckoutCompleted)
          /\ Len(keys') = Len(keys) + 1
          /\ keys'[Len(keys')].status = Str("active")
     /\ (\E i \in 1..Len(keys) : keys'[i] # keys[i]) => VerifiedStep(SubscriptionDeleted)
     /\ keys' # keys =>
          /\ \A d \in ApiDeliveries :
               (~d.sigValid \/ d.event.type \notin {CheckoutCompleted, SubscriptionDeleted})
                 => ~Webhook(d)
          /\ ~EndpointStep]_vars

\* a key was minted, used at the Auth Gate, deactivated, and used again
C12_Witness ==
  /\ last.op = "GET /v1/index"
  /\ last.status = 403
  /\ Len(keys) = 2
  /\ keys[1].status = Str("inactive")
  /\ keys[2].status = Str("active")

\* the fields of the document that each authenticated read endpoint projects
Projected ==
  ("GET /v1/index" :> {"updatedAt", "score", "dca", "drivers", "markets"})
    @@ ("GET /v1/history" :> {"history", "dcaHistory"})
    @@ ("GET /v1/markets" :> {"markets"})
    @@ ("GET /v1/drivers" :> {"drivers"})

\* what each authenticated read endpoint answers to a request with header h
ReadResponses(h) ==
  ("GET /v1/index" :> Guarded(h, V1IndexResponse))
    @@ ("GET /v1/history" :> Guarded(h, V1HistoryResponse))
    @@ ("GET /v1/markets" :> Guarded(h, V1MarketsResponse))
    @@ ("GET /v1/drivers" :> Guarded(h, V1DriversResponse))

\* the answer of an authenticated read endpoint is right for the cache: not
\* ready before the first stored payload, the document's fields once ready
RightForCache(route, status, body) ==
  /\ dataTick = 0 => status = 503 /\ body = [error |-> "Index not ready"]
  /\ ~Falsy(data) =>
       /\ status = 200
       /\ body.version = Str("v1")
       /\ \A f \in Projected[route] : body[f] = Field(data, f)

\* the same for GET /public/index
PublicRightForCache(status, body) ==
  /\ dataTick = 0 => status = 503 /\ body = [error |-> "Index not ready"]
  /\ ~Falsy(data) =>
       /\ status = 200
       /\ \A f \in BaseFields \cup {"markets"} : Field(body, f) = Field(data, f)
       /\ body.dataUpdatedAt = dataUpdatedAt
       /\ body.marketsUpdatedAt = marketsUpdatedAt

\* C13: in every state where no base fetch has succeeded yet, GET
\* /public/index and, for a request with an active key, GET /v1/index,
\* /v1/history, /v1/markets and /v1/drivers answer 503 "Index not ready" and
\* no document; in every state where the cache holds a snapshot they answer
\* 200 with the fields of the cached document. The same holds of the answer
\* each such request is given in the step that handles it.
C13_ReadsFollowReadiness ==
  /\ [](/\ PublicRightForCache(PublicIndexResponse.status, PublicIndexResponse.body)
        /\ \A h \in Headers :
             requireKey(h).next =>
               \A route \in DOMAIN Projected :
                 RightForCache(route, ReadResponses(h)[route].status,
                               ReadResponses(h)[route].body))
  /\ [][/\ (last' # last /\ last'.op = "GET /public/index")
            => PublicRightForCache(last'.status, last'.body)
        /\ (last' # last /\ last'.op \in DOMAIN Projected /\ last'.status \notin {401, 403})
            => RightForCache(last'.op, last'.status, last'.body)]_vars

\* a request with an active key was answered 200 with the markets of the
\* cached document
C13_Witness ==
  /\ last.op = "GET /v1/markets"
  /\ last.status = 200
  /\ last.body.markets = BaseMarkets
  /\ Field(data, "markets") = BaseMarkets

\* the endpoints behind the Auth Gate
AuthenticatedOps ==
  DOMAIN Projected \cup {"GET /v1/key/verify", "POST /v1/alerts/subscribe"}

\* a request with header h to the endpoint op behind the Auth Gate is answered
\* in this step
AuthenticatedStep(op, h) ==
  CASE op = "GET /v1/index" -> V1Index(h)
    [] op = "GET /v1/history" -> V1History(h)
    [] op = "GET /v1/markets" -> V1Markets(h)
    [] op = "GET /v1/drivers" -> V1Drivers(h)
    [] op = "GET /v1/key/verify" -> KeyVerify(h)
    [] op = "POST /v1/alerts/subscribe" ->
         \E body \in ApiAlertBodies : AlertsSubscribe(h, body)

\* the answer of the Auth Gate itself: an error and nothing else
GateAnswer(status, body) ==
  /\ status \in {401, 403}
  /\ body \in {[error |-> "Missing API key"], [error |-> "Invalid API key"]}

\* C14: the Auth Gate decides before the handler runs. A request to an
\* endpoint behind it whose header does not resolve to an active key is
\* answered 401 or 403, never 503, also while the cache is not ready; the
\* body is the error alone, with no field of the snapshot or of a key record;
\* and no alert record is created (nor any other state changed). The second
\* conjunct says it of the steps: one that gives another answer, or changes
\* the state, is the step of no request without an active key.
C14_GateDecidesFirst ==
  /\ [](\A h \in Headers :
          ~requireKey(h).next =>
            \A route \in DOMAIN Projected :
              GateAnswer(ReadResponses(h)[route].status, ReadResponses(h)[route].body))
  /\ [][(/\ last' # last
          /\ last'.op \in AuthenticatedOps
          /\ ~(/\ GateAnswer(last'.status, last'.body)
                /\ UNCHANGED <<alerts, keys, cacheVars>>))
          => \A h \in Headers :
               requireKey(h).next \/ ~AuthenticatedStep(last'.op, h)]_vars

\* a request without a token was refused while the cache was not ready
C14_Witness ==
  /\ last.op = "GET /v1/markets"
  /\ last.status = 401
  /\ Falsy(data)
  /\ PublicIndexStatus = 503

\* the body gives an email or a chat id (an empty string gives none)
Provides(body, f) == ~Falsy(Field(Or(body, EmptyObj), f))

\* C15: POST /v1/alerts/subscribe with an active key. When the body gives
\* neither email nor telegramChatId the answer is 400 {error: "Provide email
\* or telegramChatId"} and no alert record is created; otherwise the answer is
\* 200 {ok: true} and exactly one alert record is appended, linked to the id
\* of the key record the token resolves to, with the email and chat id of the
\* body. The alert records that were there are never changed or removed, by
\* this or by any other step.
C15_AlertSubscription ==
  [][/\ Len(alerts') >= Len(alerts)
     /\ SubSeq(alerts', 1, Len(alerts)) = alerts
     /\ \A h \in Headers, body \in AlertBodies :
          (/\ last'.op = "POST /v1/alerts/subscribe"
           /\ last'.status \notin {401, 403}
           /\ requireKey(h).next
           /\ AlertsSubscribe(h, body))
            => IF ~Provides(body, "email") /\ ~Provides(body, "telegramChatId")
               THEN /\ last'.status = 400
                    /\ last'.body = [error |-> "Provide email or telegramChatId"]
                    /\ alerts' = alerts
               ELSE /\ last'.status = 200
                    /\ last'.body = [ok |-> TRUE]
                    /\ Len(alerts') = Len(alerts) + 1
                    /\ LET new == alerts'[Len(alerts')]
                           rec == getKeyByHash(hashKey(TokenOf(h)))
                       IN /\ new.api_key_id = rec.id
                          /\ rec.status = Str("active")
                          /\ Provides(body, "email") => new.email = body.email
                          /\ IF Provides(body, "telegramChatId")
                             THEN new.telegram_chat_id = body.telegramChatId
                             ELSE new.telegram_chat_id = Null]_vars

\* the second key subscribed a chat id after an alert with an email had been
\* recorded for it
C15_Witness ==
  /\ last.op = "POST /v1/alerts/subscribe"
  /\ last.status = 200
  /\ Len(alerts) = 2
  /\ alerts[1].api_key_id = 2
  /\ alerts[1].email = Str("a@b.com")
  /\ alerts[2].api_key_id = 2
  /\ alerts[2].telegram_chat_id = Str("42")

====
